---- MODULE Spec2Model ----
(***************************************************************************)
(* A model of pinnochio, the linter of the dependency groups of a          *)
(* pyproject.toml (src/pinnochio/core.py, src/pinnochio/__main__.py).      *)
(*                                                                         *)
(* A pin is a Python str, modelled as the sequence of its characters, so   *)
(* that `">" in pin`, `pin_a != pin_b`, `dep in pins` and sorted() are the *)
(* operations of the code on the text of the pin.  packaging's Requirement *)
(* is modelled by a parser of that text (the part of PEP 508 / PEP 440     *)
(* that can be written with the characters of Ascii below: a name, extras, *)
(* version clauses with the operators == != <= >= < >; no marker, no URL,  *)
(* no `===`, no `~=`).                                                     *)
(***************************************************************************)
EXTENDS Integers, Sequences, FiniteSets, TLC

VARIABLES
    manifest,   \* pyproject.toml as main finds it (NoManifest: no file is read)
    args_pinning_strategy,  \* main: args.pinning_strategy (NoStrategy: not given)
    groups,     \* main: the DependencyGroups mapping returned by the loader
    doc,        \* main: the live TOML document (the three places pins live)
    config,     \* main: Config, [pinning_strategy]
    fix,        \* main: args.fix
    pc,         \* position in main(), in a direct rule call, or in a pin call
    results,    \* main: rule name -> CheckResult (NoResult before the call)
    docBefore,  \* the document as it was when the last rule was called
    written,    \* number of save_toml_document calls
    exitCode,   \* the value main() returns (NoExit while running)
    pin,        \* argument of a direct _add_upper_bound call
    ret,        \* its result
    ret2        \* the result of calling it again on its own output

vars == <<manifest, args_pinning_strategy,
          groups, doc, config, fix, pc, results, docBefore, written, exitCode,
          pin, ret, ret2>>

----------------------------------------------------------------------------
(* Characters and strings *)

\* The characters pins are written with, and their code points (the order
\* Python compares str by).
Ascii ==
    (" " :> 32) @@ ("!" :> 33) @@ ("," :> 44) @@ ("-" :> 45) @@ ("." :> 46) @@
    ("0" :> 48) @@ ("1" :> 49) @@ ("2" :> 50) @@ ("3" :> 51) @@ ("4" :> 52) @@
    ("5" :> 53) @@ ("6" :> 54) @@ ("7" :> 55) @@ ("8" :> 56) @@ ("9" :> 57) @@
    ("<" :> 60) @@ ("=" :> 61) @@ (">" :> 62) @@ ("[" :> 91) @@ ("]" :> 93) @@
    ("a" :> 97) @@ ("b" :> 98) @@ ("x" :> 120) @@ ("y" :> 121)

DigitChars == <<"0", "1", "2", "3", "4", "5", "6", "7", "8", "9">>
Digits  == {DigitChars[i] : i \in 1..Len(DigitChars)}
Letters == {"a", "b", "x", "y"}

\* \w of the tokenizer's IDENTIFIER rule, and the characters an identifier
\* may continue with.
WordChars  == Letters \cup Digits
IdentChars == WordChars \cup {".", "-"}

Sub(s, i, j) == IF i > j THEN <<>> ELSE SubSeq(s, i, j)

\* `c in s` for a one-character c.
Contains(s, c) == \E i \in 1..Len(s) : s[i] = c

\* s < t, as Python compares str: by code point, a proper prefix first.
RECURSIVE StrLess(_, _)
StrLess(s, t) ==
    IF t = <<>> THEN FALSE
    ELSE IF s = <<>> THEN TRUE
    ELSE IF s[1] # t[1] THEN Ascii[s[1]] < Ascii[t[1]]
    ELSE StrLess(Tail(s), Tail(t))

\* int(text) of a run of digits.
RECURSIVE ParseInt(_)
ParseInt(s) ==
    IF s = <<>> THEN 0
    ELSE 10 * ParseInt(Sub(s, 1, Len(s) - 1)) + (Ascii[s[Len(s)]] - Ascii["0"])

\* str(n) of a non-negative int.
RECURSIVE ToDecimal(_)
ToDecimal(n) ==
    IF n < 10 THEN <<DigitChars[n + 1]>>
    ELSE ToDecimal(n \div 10) \o <<DigitChars[(n % 10) + 1]>>

\* sorted(S) of a set of strings.
RECURSIVE SortedSet(_)
SortedSet(S) ==
    IF S = {} THEN <<>>
    ELSE LET m == CHOOSE x \in S : \A y \in S \ {x} : StrLess(x, y)
         IN  <<m>> \o SortedSet(S \ {m})

\* sep.join(parts)
RECURSIVE Join(_, _)
Join(sep, parts) ==
    IF parts = <<>> THEN <<>>
    ELSE IF Len(parts) = 1 THEN parts[1]
    ELSE parts[1] \o sep \o Join(sep, Tail(parts))

----------------------------------------------------------------------------
(* packaging.version.Version *)

IsDigits(s) == s # <<>> /\ \A i \in 1..Len(s) : s[i] \in Digits

\* release: [0-9]+(\.[0-9]+)*
IsRelease(s) ==
    /\ s # <<>>
    /\ \A i \in 1..Len(s) : s[i] \in Digits \cup {"."}
    /\ s[1] # "." /\ s[Len(s)] # "."
    /\ \A i \in 1..(Len(s) - 1) : ~(s[i] = "." /\ s[i + 1] = ".")

\* pre-release: [-_.]?(a|b)[-_.]?[0-9]*
IsPre(s) ==
    \E i \in 1..Len(s) :
        /\ i \in {1, 2}
        /\ i = 2 => s[1] \in {"-", "."}
        /\ s[i] \in {"a", "b"}
        /\ LET rest == Sub(s, i + 1, Len(s))
           IN  \/ rest = <<>>
               \/ IsDigits(rest)
               \/ rest[1] \in {"-", "."}
                    /\ (Len(rest) = 1 \/ IsDigits(Tail(rest)))

\* implicit post-release: -[0-9]+
IsPost(s) == Len(s) >= 2 /\ s[1] = "-" /\ IsDigits(Tail(s))

\* what may follow the release: an optional pre-release, then an optional
\* post-release.
IsVersionSuffix(s) ==
    \E k \in 0..Len(s) :
        /\ k = 0 \/ IsPre(Sub(s, 1, k))
        /\ k = Len(s) \/ IsPost(Sub(s, k + 1, Len(s)))

\* The splits (e, r) of a version text: an epoch `N!` ending at e (e = 0:
\* none), the release up to r, the suffix after it.
VersionSplits(v) ==
    {<<e, r>> \in (0..Len(v)) \X (1..Len(v)) :
        /\ e < r
        /\ e = 0 \/ (e >= 2 /\ v[e] = "!" /\ IsDigits(Sub(v, 1, e - 1)))
        /\ IsRelease(Sub(v, e + 1, r))
        /\ IsVersionSuffix(Sub(v, r + 1, Len(v)))}

IsVersion(v) == VersionSplits(v) # {}

\* the release numbers of a run such as 2.25.0
RECURSIVE ReleaseTuple(_)
ReleaseTuple(s) ==
    IF ~Contains(s, ".") THEN <<ParseInt(s)>>
    ELSE LET d == CHOOSE i \in 1..Len(s) :
                      s[i] = "." /\ \A j \in 1..(i - 1) : s[j] # "."
         IN  <<ParseInt(Sub(s, 1, d - 1))>> \o ReleaseTuple(Sub(s, d + 1, Len(s)))

\* The text between the ends of a split.
Between(v, split) == Sub(v, split[1] + 1, split[2])

\* The release segment of a version text: the longest one that splits it.
ReleaseOf(v) ==
    Between(v, CHOOSE p \in VersionSplits(v) :
                   \A q \in VersionSplits(v) : q[2] <= p[2])

\* major, minor and micro of a release (0 when the release is shorter).
VersionOfRelease(rel) ==
    [major |-> rel[1],
     minor |-> IF Len(rel) >= 2 THEN rel[2] ELSE 0,
     micro |-> IF Len(rel) >= 3 THEN rel[3] ELSE 0]

\* Version(text)
Version(v) == VersionOfRelease(ReleaseTuple(ReleaseOf(v)))

----------------------------------------------------------------------------
(* packaging.requirements.Requirement *)

\* The parser reads the text s left to right.  Its state is the position
\* of the next character with what has been read so far; ok = FALSE once
\* the text has been refused (InvalidRequirement).
ParseStart == [ok |-> TRUE, pos |-> 1, name |-> <<>>, extras |-> {}, specs |-> {}]
ParseFail  == [ok |-> FALSE]

Advance(st, n) == [st EXCEPT !.pos = @ + n]

\* The next character is c.
At(s, st, c) == st.pos <= Len(s) /\ s[st.pos] = c

RECURSIVE SkipWs(_, _)
SkipWs(s, i) == IF i <= Len(s) /\ s[i] = " " THEN SkipWs(s, i + 1) ELSE i

\* WS?
Ws(s, st) == IF st.ok THEN [st EXCEPT !.pos = SkipWs(s, @)] ELSE st

\* The last position of the IDENTIFIER token that starts at i
\* (\b[a-zA-Z0-9][a-zA-Z0-9._-]*\b), or i - 1 when none starts there.
IdentEnd(s, i) ==
    IF i > Len(s) \/ s[i] \notin WordChars THEN i - 1
    ELSE CHOOSE j \in i..Len(s) :
             /\ \A k \in i..j : s[k] \in IdentChars
             /\ s[j] \in WordChars
             /\ \A m \in (j + 1)..Len(s) :
                    (\A k \in i..m : s[k] \in IdentChars) => s[m] \notin WordChars

\* The name of the requirement: IDENTIFIER
ParseName(s, st) ==
    IF ~st.ok \/ IdentEnd(s, st.pos) < st.pos THEN ParseFail
    ELSE [st EXCEPT !.name = Sub(s, st.pos, IdentEnd(s, st.pos)),
                    !.pos  = IdentEnd(s, st.pos) + 1]

\* One name of the extras list: IDENTIFIER
ParseExtraName(s, st) ==
    IF ~st.ok \/ IdentEnd(s, st.pos) < st.pos THEN ParseFail
    ELSE [st EXCEPT !.extras = @ \cup {Sub(s, st.pos, IdentEnd(s, st.pos))},
                    !.pos    = IdentEnd(s, st.pos) + 1]

\* _parse_extras_list after a name: (WS? "," WS? IDENTIFIER)*, where a name
\* that follows without a comma is refused.
RECURSIVE ExtrasMore(_, _)
RECURSIVE ExtrasNext(_, _)
ExtrasNext(s, st) ==
    IF ~st.ok THEN st
    ELSE IF st.pos <= Len(s) /\ s[st.pos] \in WordChars THEN ParseFail
    ELSE IF ~At(s, st, ",") THEN st
    ELSE ExtrasMore(s, ParseExtraName(s, Ws(s, Advance(st, 1))))

ExtrasMore(s, st) == ExtrasNext(s, Ws(s, st))

\* _parse_extras_list: (IDENTIFIER (WS? "," WS? IDENTIFIER)*)?
ExtrasList(s, st) ==
    IF ~st.ok \/ IdentEnd(s, st.pos) < st.pos THEN st
    ELSE ExtrasMore(s, ParseExtraName(s, st))

ExtrasClose(s, st) ==
    IF ~st.ok THEN st
    ELSE IF ~At(s, st, "]") THEN ParseFail
    ELSE Advance(st, 1)

\* _parse_extras: ("[" WS? extras_list? WS? "]")?
ParseExtras(s, st) ==
    IF ~st.ok \/ ~At(s, st, "[") THEN st
    ELSE ExtrasClose(s, Ws(s, ExtrasList(s, Ws(s, Advance(st, 1)))))

OpEq == <<"=", "=">>
OpNe == <<"!", "=">>
OpLe == <<"<", "=">>
OpGe == <<">", "=">>
OpLt == <<"<">>
OpGt == <<">">>

\* The operator of the SPECIFIER token at i (two-character operators are
\* tried first), or <<>>.
OperatorAt(s, i) ==
    IF i + 1 <= Len(s) /\ Sub(s, i, i + 1) \in {OpEq, OpNe, OpLe, OpGe}
        THEN Sub(s, i, i + 1)
    ELSE IF i <= Len(s) /\ s[i] \in {"<", ">"} THEN <<s[i]>>
    ELSE <<>>

\* The last position of the version that starts at j: it runs to the next
\* blank or comma.
VersionEnd(s, j) ==
    CHOOSE e \in (j - 1)..Len(s) :
        /\ \A k \in j..e : s[k] \notin {" ", ","}
        /\ e = Len(s) \/ s[e + 1] \in {" ", ","}

\* The version of a clause whose operator op has been read.  The
\* specifiers are kept as a set (SpecifierSet holds a frozenset of
\* Specifier).
ParseClause(s, op, st) ==
    IF ~IsVersion(Sub(s, st.pos, VersionEnd(s, st.pos))) THEN ParseFail
    ELSE [st EXCEPT !.specs = @ \cup {[operator |-> op,
                                       version  |-> Sub(s, st.pos, VersionEnd(s, st.pos))]},
                    !.pos   = VersionEnd(s, st.pos) + 1]

\* _parse_version_many: (SPECIFIER (WS? "," WS? SPECIFIER)* (WS? ",")?)?
RECURSIVE ParseVersionMany(_, _)
RECURSIVE VersionManyNext(_, _)
VersionManyNext(s, st) ==
    IF ~st.ok \/ ~At(s, st, ",") THEN st
    ELSE ParseVersionMany(s, Ws(s, Advance(st, 1)))

ParseVersionMany(s, st) ==
    IF ~st.ok \/ OperatorAt(s, st.pos) = <<>> THEN st
    ELSE VersionManyNext(
             s, Ws(s, ParseClause(s, OperatorAt(s, st.pos),
                                  Ws(s, Advance(st, Len(OperatorAt(s, st.pos)))))))

\* The end of the text: anything left over is refused.
ParseEnd(s, st) ==
    IF ~st.ok \/ st.pos <= Len(s) THEN ParseFail
    ELSE [ok        |-> TRUE,
          name      |-> st.name,
          extras    |-> st.extras,
          specifier |-> st.specs]

\* Requirement(text): [ok |-> FALSE] stands for InvalidRequirement.
Requirement(s) ==
    ParseEnd(s, Ws(s, ParseVersionMany(s, Ws(s, ParseExtras(s, Ws(s,
        ParseName(s, Ws(s, ParseStart))))))))

----------------------------------------------------------------------------
(* split_pin *)

\* The pins the dependency groups of a manifest are drawn from:
\*   a>=1.0   a>1.0   b>=1,<2   a>=  (the last is malformed)
PinGe    == <<"a", ">", "=", "1", ".", "0">>
PinGt    == <<"a", ">", "1", ".", "0">>
PinBoth  == <<"b", ">", "=", "1", ",", "<", "2">>
PinBad   == <<"a", ">", "=">>
GroupPins == {PinGe, PinGt, PinBoth, PinBad}

\* Requirement(p) of the pins above, parsed once.
ParsedPins == [p \in GroupPins |-> Requirement(p)]

\* split_pin(pin): (req.name, req.specifier), or InvalidRequirement
split_pin(p) == IF p \in GroupPins THEN ParsedPins[p] ELSE Requirement(p)

----------------------------------------------------------------------------
(* _add_upper_bound *)

MAJOR == "major"
MINOR == "minor"
PATCH == "patch"
PinningStrategy == {MAJOR, MINOR, PATCH}

\* any(spec.operator in ("<", "<=") for spec in specifiers)
HasUpperBound(specifiers) ==
    \E spec \in specifiers : spec.operator \in {OpLt, OpLe}

\* A variant that also takes a `>` clause for the lower bound.
LowerBoundsAnyGreater(specifiers) ==
    {spec.version : spec \in {sp \in specifiers : sp.operator \in {OpGe, OpGt}}}

\* The versions the loop over the specifiers can stop at: the specifiers are
\* a frozenset, so with several >= clauses the first one met is any of them.
LowerBounds(specifiers) ==
    {spec.version : spec \in {sp \in specifiers : sp.operator = OpGe}}

\* A variant that bumps one release number and forgets to zero the ones
\* after it.
UpperVersionNoReset(lower_version, strategy) ==
    ToDecimal(lower_version.major + (IF strategy = MAJOR THEN 1 ELSE 0)) \o <<".">>
        \o ToDecimal(lower_version.minor + (IF strategy = MINOR THEN 1 ELSE 0)) \o <<".">>
        \o ToDecimal(lower_version.micro + (IF strategy = PATCH THEN 1 ELSE 0))

\* upper_version for the strategy
UpperVersion(lower_version, strategy) ==
    CASE strategy = MAJOR ->
            ToDecimal(lower_version.major + 1) \o <<".", "0", ".", "0">>
      [] strategy = MINOR ->
            ToDecimal(lower_version.major) \o <<".">>
                \o ToDecimal(lower_version.minor + 1) \o <<".", "0">>
      [] strategy = PATCH ->
            ToDecimal(lower_version.major) \o <<".">>
                \o ToDecimal(lower_version.minor) \o <<".">>
                \o ToDecimal(lower_version.micro + 1)

\* extras_str
ExtrasStr(extras) ==
    IF extras = {} THEN <<>>
    ELSE <<"[">> \o Join(<<",">>, SortedSet(extras)) \o <<"]">>

\* f"{package_name}{extras_str}>={lower_bound},<{upper_version}"
FormatPin(req, lower_bound, strategy) ==
    req.name \o ExtrasStr(req.extras) \o OpGe \o lower_bound
        \o <<",", "<">> \o UpperVersion(Version(lower_bound), strategy)

\* A variant without the early return, which appends the bound to the pin
\* as it was written.
AddUpperBoundAppending(p, cfg) ==
    LET req == split_pin(p)
    IN  IF ~req.ok THEN {[kind |-> "InvalidRequirement"]}
        ELSE IF LowerBounds(req.specifier) = {} THEN {[kind |-> "ValueError"]}
        ELSE {[kind |-> "ok",
               pin  |-> p \o <<",", "<">>
                          \o UpperVersion(Version(lb), cfg.pinning_strategy)] :
                 lb \in LowerBounds(req.specifier)}

\* _add_upper_bound once split_pin has returned req, or has raised.
AddUpperBoundTo(p, req, cfg) ==
    IF ~req.ok THEN {[kind |-> "InvalidRequirement"]}
    ELSE IF HasUpperBound(req.specifier) THEN {[kind |-> "ok", pin |-> p]}
    ELSE IF LowerBounds(req.specifier) = {} THEN {[kind |-> "ValueError"]}
    ELSE {[kind |-> "ok", pin |-> FormatPin(req, lb, cfg.pinning_strategy)] :
             lb \in LowerBounds(req.specifier)}

\* _add_upper_bound(pin, config): the results it can end with.  kind "ok"
\* carries the returned str; the other kinds are the exception raised.
AddUpperBound(p, cfg) == AddUpperBoundTo(p, split_pin(p), cfg)

----------------------------------------------------------------------------
(* The document, the loader and the document mutator *)

\* Bounds of the manifests explored: the number of pins in the whole
\* document, for a rule called alone and for a run of main, and the names
\* [project.optional-dependencies] may hold, in document order.
MaxPins == 4
MaxMainPins == 3
OptionalNames == <<"ml">>

SeqsUpTo(S, n) == UNION {[1..k -> S] : k \in 0..n}

\* The ways of cutting t into k consecutive parts.
RECURSIVE Splits(_, _)
Splits(t, k) ==
    IF k = 1 THEN {<<t>>}
    ELSE UNION {{<<Sub(t, 1, i)>> \o r : r \in Splits(Sub(t, i + 1, Len(t)), k - 1)} :
                   i \in 0..Len(t)}

\* A document: [project].dependencies, [dependency-groups].dev and the
\* [project.optional-dependencies] table (name -> array; the empty mapping
\* also stands for an absent table, which the loader reads as {}).
MakeDocument(parts, present) ==
    [dependencies |-> parts[1],
     dev          |-> parts[2],
     optional     |-> [g \in present |->
                          parts[2 + CHOOSE i \in 1..Len(OptionalNames) :
                                        OptionalNames[i] = g]]]

\* The documents that hold at most n pins, each one of pins.
DocumentsOf(pins, n) ==
    UNION {UNION {{MakeDocument(parts, present) :
                      present \in {S \in SUBSET {OptionalNames[i] :
                                                    i \in 1..Len(OptionalNames)} :
                                      \A i \in 1..Len(OptionalNames) :
                                          parts[2 + i] # <<>> => OptionalNames[i] \in S}} :
                     parts \in Splits(t, 2 + Len(OptionalNames))} :
              t \in SeqsUpTo(pins, n)}

DocumentsUpTo(n) == DocumentsOf(GroupPins, n)

Documents     == DocumentsUpTo(MaxPins)
MainDocuments == DocumentsUpTo(MaxMainPins)

\* load_uv_dependencies: the groups mapping.  The optional groups are
\* spread last into the dict literal, so an optional group named
\* `dependencies` or `dev` takes the place of that key's value.
LoadGroups(d) ==
    [g \in {"dependencies", "dev"} \cup DOMAIN d.optional |->
        IF g \in DOMAIN d.optional THEN d.optional[g]
        ELSE IF g = "dependencies" THEN d.dependencies
        ELSE d.dev]

\* The keys of the groups mapping in dict order.
GroupOrder(gs) ==
    SelectSeq(<<"dependencies", "dev">> \o
                  SelectSeq(OptionalNames, LAMBDA g : g \notin {"dependencies", "dev"}),
              LAMBDA g : g \in DOMAIN gs)

\* Whether get_dependency_array finds the array (otherwise: KeyError).
HasDependencyArray(d, group_name) ==
    group_name \in {"dependencies", "dev"} \cup DOMAIN d.optional

get_dependency_array(d, group_name) ==
    IF group_name = "dependencies" THEN d.dependencies
    ELSE IF group_name = "dev" THEN d.dev
    ELSE d.optional[group_name]

set_dependency_array(d, group_name, array) ==
    IF group_name = "dependencies" THEN [d EXCEPT !.dependencies = array]
    ELSE IF group_name = "dev" THEN [d EXCEPT !.dev = array]
    ELSE [d EXCEPT !.optional = (group_name :> array) @@ d.optional]

\* update_dependencies_in_group(doc, group_name, transform_fn), given
\* transformed_deps, the value of transform_fn on the pins
\* get_dependency_array(doc, group_name) holds: the group's array is set to
\* a new array of these pins.  (The caller makes sure the array exists:
\* without it get_dependency_array raises KeyError.)
update_dependencies_in_group(d, group_name, transformed_deps) ==
    set_dependency_array(d, group_name, transformed_deps)

Range(seq) == {seq[i] : i \in 1..Len(seq)}

\* dict(defaultdict(list)) built by appending: the keys are the groups that
\* got at least one pin.
IssuesOf(found) ==
    [g \in {h \in DOMAIN found : found[h] # <<>>} |-> found[g]]

PASSED == "passed"
FAILED == "failed"
FIXED  == "fixed"

CheckResult(status, issues) == [status |-> status, issues |-> issues]
NoResult == [status |-> "none", issues |-> <<>>]

\* What stands for the result of a rule that raised the KeyError of
\* get_dependency_array instead of returning.
RaisedKeyError == [status |-> "KeyError", issues |-> <<>>]

\* CheckResult.has_issues
has_issues(r) == DOMAIN r.issues # {}

----------------------------------------------------------------------------
(* Rule 1: check_upper_bounds *)

\* ">" in pin and "<" not in pin
IsUnpinned(p) == Contains(p, ">") /\ ~Contains(p, "<")

\* unpinned: per group, the flagged pins in group order
Unpinned(gs) == IssuesOf([g \in DOMAIN gs |-> SelectSeq(gs[g], IsUnpinned)])

\* fix_fn(deps), given outcomes: for each flagged pin of deps, the results
\* _add_upper_bound can end with.  The list comprehension either builds the
\* whole list or raises at the first pin _add_upper_bound fails on.  One
\* process parses equal texts alike, so each distinct text has one result.
FixFnOf(deps, outcomes) ==
    {IF \E p \in DOMAIN f : f[p].kind # "ok" THEN [kind |-> "raise"]
     ELSE [kind |-> "ok",
           deps |-> [i \in 1..Len(deps) |->
                        IF deps[i] \in DOMAIN f THEN f[deps[i]].pin ELSE deps[i]]] :
        f \in {g \in [DOMAIN outcomes -> UNION {outcomes[p] : p \in DOMAIN outcomes}] :
                  \A p \in DOMAIN outcomes : g[p] \in outcomes[p]}}

\* fix_fn(deps) for the flagged pins of the group
FixFn(deps, pins, cfg) ==
    FixFnOf(deps, [p \in Range(deps) \cap Range(pins) |-> AddUpperBound(p, cfg)])

\* One turn of the fixing loop: update_dependencies_in_group under
\* `try ... except Exception`, which leaves the group as it was when the
\* array is missing or fix_fn raises.
FixUpperGroup(d, group_name, pins, cfg) ==
    IF ~HasDependencyArray(d, group_name) THEN {d}
    ELSE {IF o.kind = "ok" THEN update_dependencies_in_group(d, group_name, o.deps)
          ELSE d :
             o \in FixFn(get_dependency_array(d, group_name), pins, cfg)}

\* The fixing loop over unpinned.items(): the documents it can end with.
RECURSIVE FixUpperGroups(_, _, _, _)
FixUpperGroups(d, names, unpinned, cfg) ==
    IF names = <<>> THEN {d}
    ELSE UNION {FixUpperGroups(d2, Tail(names), unpinned, cfg) :
                   d2 \in FixUpperGroup(d, Head(names), unpinned[Head(names)], cfg)}

UpperStatus(unpinned, fixing) ==
    IF DOMAIN unpinned = {} THEN PASSED
    ELSE IF fixing THEN FIXED
    ELSE FAILED

check_upper_bounds(from, to, cfg, fixing) ==
    /\ pc = from
    /\ LET unpinned == Unpinned(groups)
       IN  /\ results' = [results EXCEPT
                             !.upper = CheckResult(UpperStatus(unpinned, fixing), unpinned)]
           /\ doc' \in IF DOMAIN unpinned # {} /\ fixing
                           THEN FixUpperGroups(doc, GroupOrder(unpinned), unpinned, cfg)
                       ELSE {doc}
    /\ docBefore' = doc
    /\ pc' = to
    /\ UNCHANGED <<manifest, args_pinning_strategy,
                   groups, written, exitCode, pin, ret, ret2>>

----------------------------------------------------------------------------
(* Rule 2: check_all_groups_are_sorted *)

\* sorted(deps) of a list of strings
RECURSIVE Insert(_, _)
Insert(x, sortedSeq) ==
    IF sortedSeq = <<>> THEN <<x>>
    ELSE IF StrLess(x, Head(sortedSeq)) THEN <<x>> \o sortedSeq
    ELSE <<Head(sortedSeq)>> \o Insert(x, Tail(sortedSeq))

\* A variant that keeps one of each pin: sorted(set(deps))
SortedDistinct(deps) == SortedSet(Range(deps))

RECURSIVE Sorted(_)
Sorted(deps) ==
    IF deps = <<>> THEN <<>>
    ELSE Insert(deps[Len(deps)], Sorted(Sub(deps, 1, Len(deps) - 1)))

\* A variant that asks for strictly increasing pins.
UnsortedStrict(gs) ==
    [g \in {h \in DOMAIN gs :
                \E i \in 1..(Len(gs[h]) - 1) : ~StrLess(gs[h][i], gs[h][i + 1])} |-> gs[g]]

\* unsorted: the groups that differ from their sorted selves
Unsorted(gs) == [g \in {h \in DOMAIN gs : gs[h] # Sorted(gs[h])} |-> gs[g]]

\* The fixing loop over unsorted: the document it leaves, and whether
\* update_dependencies_in_group raised for want of the group's array (the
\* loop has no try, so the groups after that one are not reached).
RECURSIVE SortGroups(_, _)
SortGroups(d, names) ==
    IF names = <<>> THEN [doc |-> d, raised |-> FALSE]
    ELSE IF ~HasDependencyArray(d, Head(names)) THEN [doc |-> d, raised |-> TRUE]
    ELSE SortGroups(
             update_dependencies_in_group(
                 d, Head(names), Sorted(get_dependency_array(d, Head(names)))),
             Tail(names))

\* What the rule ends with after the fixing loop.
Fixed(out, issues) ==
    IF out.raised THEN RaisedKeyError ELSE CheckResult(FIXED, issues)

SortStatus(unsorted, fixing) ==
    IF DOMAIN unsorted = {} THEN PASSED
    ELSE IF fixing THEN FIXED
    ELSE FAILED

\* A variant that sorts the document whether fix was asked for or not.
check_all_groups_are_sorted_unasked(from, to, cfg, fixing) ==
    /\ pc = from
    /\ LET unsorted == Unsorted(groups)
       IN  /\ results' = [results EXCEPT
                             !.sort = CheckResult(SortStatus(unsorted, fixing), unsorted)]
           /\ doc' = SortGroups(doc, GroupOrder(unsorted)).doc
    /\ docBefore' = doc
    /\ pc' = to
    /\ UNCHANGED <<manifest, args_pinning_strategy,
                   groups, written, exitCode, pin, ret, ret2>>

check_all_groups_are_sorted(from, to, cfg, fixing) ==
    /\ pc = from
    /\ LET unsorted == Unsorted(groups)
       IN  IF DOMAIN unsorted # {} /\ fixing
               THEN \E out \in {SortGroups(doc, GroupOrder(unsorted))} :
                        /\ results' = [results EXCEPT !.sort = Fixed(out, unsorted)]
                        /\ doc' = out.doc
           ELSE /\ results' = [results EXCEPT
                                  !.sort = CheckResult(SortStatus(unsorted, fixing),
                                                       unsorted)]
                /\ doc' = doc
    /\ docBefore' = doc
    /\ pc' = to
    /\ UNCHANGED <<manifest, args_pinning_strategy,
                   groups, written, exitCode, pin, ret, ret2>>

----------------------------------------------------------------------------
(* Rule 3: check_group_overlaps_match *)

\* combinations(groups, 2): the pairs of keys in dict order
Combinations(names) ==
    LET n   == Len(names)
        idx == SelectSeq([k \in 1..(n * n) |-> <<((k - 1) \div n) + 1, ((k - 1) % n) + 1>>],
                         LAMBDA q : q[1] < q[2])
    IN  [k \in 1..Len(idx) |-> <<names[idx[k][1]], names[idx[k][2]]>>]

\* product(A, B): the pairs of pins, the first list outermost
Product(A, B) ==
    [k \in 1..(Len(A) * Len(B)) |->
        <<A[((k - 1) \div Len(B)) + 1], B[((k - 1) % Len(B)) + 1]>>]

\* A variant that forgets `pin_a != pin_b`.
DriftedSameName(pin_a, pin_b) ==
    LET a == split_pin(pin_a)
        b == split_pin(pin_b)
    IN  a.ok /\ b.ok /\ a.name = b.name

\* The body of the try: both pins parse, the names are equal and the texts
\* differ.  InvalidRequirement from either split_pin skips the pair.
Drifted(pin_a, pin_b) ==
    \E a \in {split_pin(pin_a)}, b \in {split_pin(pin_b)} :
        a.ok /\ b.ok /\ a.name = b.name /\ pin_a # pin_b

\* A variant whose try encloses the loop: the first pair with a malformed
\* pin ends the comparisons of the two groups.
DriftedPairsUntilMalformed(A, B) ==
    LET pairs == Product(A, B)
        bad   == {k \in 1..Len(pairs) :
                     ~split_pin(pairs[k][1]).ok \/ ~split_pin(pairs[k][2]).ok}
        upto  == IF bad = {} THEN Len(pairs)
                 ELSE (CHOOSE k \in bad : \A j \in bad : k <= j) - 1
    IN  SelectSeq(Sub(pairs, 1, upto), LAMBDA q : Drifted(q[1], q[2]))

\* The pairs of product(A, B) the try body appends for, in order.
DriftedPairs(A, B) == SelectSeq(Product(A, B), LAMBDA q : Drifted(q[1], q[2]))

\* The side-th pins of the pairs.
PinsOfPairs(pairs, side) == [k \in 1..Len(pairs) |-> pairs[k][side]]

\* What the pair of groups (ga, gb) appends to drift[g]: pin_a to the first
\* group, pin_b to the second.
DriftOfPair(gs, ga, gb, g) ==
    IF g = ga THEN PinsOfPairs(DriftedPairs(gs[ga], gs[gb]), 1)
    ELSE IF g = gb THEN PinsOfPairs(DriftedPairs(gs[ga], gs[gb]), 2)
    ELSE <<>>

RECURSIVE DriftOfPairs(_, _, _)
DriftOfPairs(gs, pairs, g) ==
    IF pairs = <<>> THEN <<>>
    ELSE DriftOfPair(gs, Head(pairs)[1], Head(pairs)[2], g)
            \o DriftOfPairs(gs, Tail(pairs), g)

\* drift: per group, the pins appended, one entry per drifted pair
Drift(gs) ==
    IssuesOf([g \in DOMAIN gs |-> DriftOfPairs(gs, Combinations(GroupOrder(gs)), g)])

\* A variant that reports drift as fixed, as the rules with a fix do.
DriftStatusFixed(drift) == IF DOMAIN drift = {} THEN PASSED ELSE FIXED

DriftStatus(drift) == IF DOMAIN drift = {} THEN PASSED ELSE FAILED

check_group_overlaps_match(from, to, cfg, fixing) ==
    /\ pc = from
    /\ LET drift == Drift(groups)
       IN  results' = [results EXCEPT !.drift = CheckResult(DriftStatus(drift), drift)]
    /\ docBefore' = doc
    /\ pc' = to
    /\ UNCHANGED <<manifest, args_pinning_strategy,
                   groups, doc, written, exitCode, pin, ret, ret2>>

----------------------------------------------------------------------------
(* Rule 4: check_no_overlap_between_core_deps_and_groups *)

\* The inner try: the pin parses to the name of the core pin.
SameDep(core_dep, p) ==
    \E r \in {split_pin(p)} : r.ok /\ r.name = core_dep

\* What one core pin, parsed to c, appends to redundant_pins[group_name].
RedundantWith(c, group) ==
    IF c.ok THEN SelectSeq(group, LAMBDA p : SameDep(c.name, p)) ELSE <<>>

RECURSIVE RedundantIn(_, _)
RECURSIVE RedundantInSameText(_, _)
\* A variant that compares the pins as written instead of their names.
RedundantInSameText(core, group) ==
    IF core = <<>> THEN <<>>
    ELSE SelectSeq(group, LAMBDA p : split_pin(p).ok /\ p = Head(core))
             \o RedundantInSameText(Tail(core), group)

\* What the core pins, in order, append to redundant_pins[group_name]; a
\* core pin that does not parse appends nothing.
RedundantIn(core, group) ==
    IF core = <<>> THEN <<>>
    ELSE RedundantWith(split_pin(Head(core)), group) \o RedundantIn(Tail(core), group)

\* A variant without the `continue` that skips the group `dependencies`.
RedundantPinsWithCore(gs) ==
    IssuesOf([g \in DOMAIN gs |-> RedundantIn(gs["dependencies"], gs[g])])

\* redundant_pins: the group `dependencies` is never a key
RedundantPins(gs) ==
    IssuesOf([g \in DOMAIN gs \ {"dependencies"} |->
                 RedundantIn(gs["dependencies"], gs[g])])

\* A variant that also drops the pins that do not parse.
WithoutPinsOrMalformed(deps, pins) ==
    SelectSeq(deps, LAMBDA dep : dep \notin Range(pins) /\ split_pin(dep).ok)

\* A variant that sorts what it keeps.
WithoutPinsSorted(deps, pins) ==
    Sorted(SelectSeq(deps, LAMBDA dep : dep \notin Range(pins)))

\* lambda deps: [dep for dep in deps if dep not in pins]
WithoutPins(deps, pins) == SelectSeq(deps, LAMBDA dep : dep \notin Range(pins))

\* The keys of redundant_pins in dict order: a group becomes a key when
\* the first pin is appended for it, the core pins being the outer loop.
RECURSIVE RedundantOrder(_, _, _, _)
RedundantOrder(gs, core, redundant_pins, keys) ==
    IF core = <<>> THEN keys
    ELSE RedundantOrder(
             gs, Tail(core), redundant_pins,
             keys \o SelectSeq(GroupOrder(gs),
                               LAMBDA g : /\ g \in DOMAIN redundant_pins
                                          /\ g \notin Range(keys)
                                          /\ RedundantIn(<<Head(core)>>, gs[g]) # <<>>))

\* The fixing loop over redundant_pins: the document it leaves, and whether
\* update_dependencies_in_group raised for want of the group's array.
RECURSIVE RemoveRedundant(_, _, _)
RemoveRedundant(d, names, redundant_pins) ==
    IF names = <<>> THEN [doc |-> d, raised |-> FALSE]
    ELSE IF ~HasDependencyArray(d, Head(names)) THEN [doc |-> d, raised |-> TRUE]
    ELSE RemoveRedundant(
             update_dependencies_in_group(
                 d, Head(names),
                 WithoutPins(get_dependency_array(d, Head(names)),
                             redundant_pins[Head(names)])),
             Tail(names), redundant_pins)

OverlapStatus(redundant_pins, fixing) ==
    IF DOMAIN redundant_pins = {} THEN PASSED
    ELSE IF fixing THEN FIXED
    ELSE FAILED

check_no_overlap_between_core_deps_and_groups(from, to, cfg, fixing) ==
    /\ pc = from
    /\ LET redundant_pins == RedundantPins(groups)
       IN  IF DOMAIN redundant_pins # {} /\ fixing
               THEN \E out \in {RemoveRedundant(
                                    doc,
                                    RedundantOrder(groups, groups["dependencies"],
                                                   redundant_pins, <<>>),
                                    redundant_pins)} :
                        /\ results' = [results EXCEPT
                                          !.overlap = Fixed(out, redundant_pins)]
                        /\ doc' = out.doc
           ELSE /\ results' = [results EXCEPT
                                  !.overlap = CheckResult(
                                                  OverlapStatus(redundant_pins, fixing),
                                                  redundant_pins)]
                /\ doc' = doc
    /\ docBefore' = doc
    /\ pc' = to
    /\ UNCHANGED <<manifest, args_pinning_strategy,
                   groups, written, exitCode, pin, ret, ret2>>

----------------------------------------------------------------------------
(* main *)

Rules == {"upper", "sort", "drift", "overlap"}

\* any(r.has_issues for r in results)
AnyIssues(rs) == \E r \in Rules : has_issues(rs[r])

\* all(r.status in (PASSED, FIXED) for r in results)
AllFixed(rs) == \A r \in Rules : rs[r].status \in {PASSED, FIXED}

\* The value main returns once the four rules have run.
ExitCode(rs, fixing) ==
    IF fixing /\ AnyIssues(rs) THEN (IF AllFixed(rs) THEN 0 ELSE 1)
    ELSE IF ~AnyIssues(rs) THEN 0
    ELSE 1

\* A variant that saves the document whenever --fix was given.
ExitSavingUnderFix ==
    /\ pc = "exit"
    /\ written' = IF fix THEN written + 1 ELSE written
    /\ exitCode' = ExitCode(results, fix)
    /\ pc' = "done"
    /\ UNCHANGED <<manifest, args_pinning_strategy,
                   groups, doc, config, fix, results, docBefore, pin, ret, ret2>>

\* The end of main: save the document when fixing found issues, and return.
Exit ==
    /\ pc = "exit"
    /\ written' = IF fix /\ AnyIssues(results) THEN written + 1 ELSE written
    /\ exitCode' = ExitCode(results, fix)
    /\ pc' = "done"
    /\ UNCHANGED <<manifest, args_pinning_strategy,
                   groups, doc, config, fix, results, docBefore, pin, ret, ret2>>

\* No file is read and no command line is parsed: the run is followed from
\* the loaded document on, or a function is called directly.
NoManifest == [found |-> FALSE]
NoStrategy == "None"

NoPin == <<>>
NoReturn == [kind |-> "none"]

\* The state no rule has run in: the groups are those of the document.
Loaded(d, at) ==
    /\ doc = d
    /\ groups = LoadGroups(d)
    /\ pc = at
    /\ results = [r \in Rules |-> NoResult]
    /\ docBefore = d
    /\ written = 0
    /\ exitCode = "none"
    /\ manifest = NoManifest
    /\ args_pinning_strategy = NoStrategy
    /\ pin = NoPin
    /\ ret = NoReturn
    /\ ret2 = NoReturn

Configs == [pinning_strategy : PinningStrategy]

\* main after load_uv_dependencies and the --pinning-strategy override.
Init ==
    /\ \E d \in MainDocuments : Loaded(d, "upper")
    /\ config \in Configs
    /\ fix \in BOOLEAN

\* The checks list, run in order with fix=args.fix.
Next ==
    \/ check_upper_bounds("upper", "sort", config, fix) /\ UNCHANGED <<config, fix>>
    \/ check_all_groups_are_sorted("sort", "drift", config, fix) /\ UNCHANGED <<config, fix>>
    \/ check_group_overlaps_match("drift", "overlap", config, fix) /\ UNCHANGED <<config, fix>>
    \/ check_no_overlap_between_core_deps_and_groups("overlap", "exit", config, fix)
           /\ UNCHANGED <<config, fix>>
    \/ Exit

Spec == Init /\ [][Next]_vars

----------------------------------------------------------------------------
(* main from the command line: the file, load_config and the override *)

\* The sections load_uv_dependencies asks for.
Sections ==
    {"project", "project.dependencies", "dependency-groups", "dependency-groups.dev"}

\* [tool.pinnochio] of a manifest: absent, there without being a table, or
\* a table whose pinning-strategy is unset or holds a str.
ToolPinnochio ==
    {[table |-> "absent", pinning_strategy |-> NoStrategy],
     [table |-> "not_table", pinning_strategy |-> NoStrategy]}
        \cup [table : {"table"},
              pinning_strategy : {NoStrategy, MAJOR, MINOR, PATCH, "fast"}]

MaxLoadPins == 1

\* A document with empty arrays and no optional group.
EmptyDocument == [dependencies |-> <<>>, dev |-> <<>>, optional |-> <<>>]

\* The manifests main may find: no file, a file that is not TOML, a file
\* that lacks a section, and the files that have the sections, with their
\* document and their [tool.pinnochio].
Manifests ==
    {[found |-> FALSE, wellformed |-> FALSE, sections |-> {},
      tool |-> [table |-> "absent", pinning_strategy |-> NoStrategy],
      document |-> EmptyDocument],
     [found |-> TRUE, wellformed |-> FALSE, sections |-> {},
      tool |-> [table |-> "absent", pinning_strategy |-> NoStrategy],
      document |-> EmptyDocument]}
        \cup {[found |-> TRUE, wellformed |-> TRUE, sections |-> s,
               tool |-> [table |-> "absent", pinning_strategy |-> NoStrategy],
               document |-> EmptyDocument] :
                 s \in {x \in SUBSET Sections :
                           /\ x # Sections
                           /\ "project.dependencies" \in x => "project" \in x
                           /\ "dependency-groups.dev" \in x => "dependency-groups" \in x}}
        \cup [found : {TRUE}, wellformed : {TRUE}, sections : {Sections},
              tool : ToolPinnochio, document : DocumentsUpTo(MaxLoadPins)]

\* A variant that falls back on the default where load_config raises.
load_config_defaulting(tool) ==
    IF tool.table = "table" /\ tool.pinning_strategy \in PinningStrategy
        THEN [kind |-> "ok", config |-> [pinning_strategy |-> tool.pinning_strategy]]
    ELSE [kind |-> "ok", config |-> [pinning_strategy |-> MAJOR]]

\* load_config(doc): Config, or ValueError
load_config(tool) ==
    IF tool.table = "absent" THEN [kind |-> "ok", config |-> [pinning_strategy |-> MAJOR]]
    ELSE IF tool.table # "table" THEN [kind |-> "ValueError"]
    ELSE IF tool.pinning_strategy = NoStrategy
        THEN [kind |-> "ok", config |-> [pinning_strategy |-> MAJOR]]
    ELSE IF tool.pinning_strategy \in PinningStrategy
        THEN [kind |-> "ok", config |-> [pinning_strategy |-> tool.pinning_strategy]]
    ELSE [kind |-> "ValueError"]

\* What load_uv_dependencies returns once the sections have been found.
LoadedWith(m, cfg) ==
    IF cfg.kind # "ok" THEN cfg
    ELSE [kind |-> "ok", groups |-> LoadGroups(m.document), doc |-> m.document,
          config |-> cfg.config]

\* load_uv_dependencies(): (groups, doc, config), or the exception raised
load_uv_dependencies(m) ==
    IF ~m.found THEN [kind |-> "FileNotFoundError"]
    ELSE IF ~m.wellformed THEN [kind |-> "TOMLKitError"]
    ELSE IF "project" \notin m.sections THEN [kind |-> "KeyError"]
    ELSE IF "project.dependencies" \notin m.sections THEN [kind |-> "KeyError"]
    ELSE IF "dependency-groups" \notin m.sections THEN [kind |-> "KeyError"]
    ELSE IF "dependency-groups.dev" \notin m.sections THEN [kind |-> "KeyError"]
    ELSE LoadedWith(m, load_config(m.tool))

\* A variant that leaves the loaded config as it is.
OverrideIgnored(cfg, arg) == cfg

\* if args.pinning_strategy: config.pinning_strategy = PinningStrategy(...)
Override(cfg, arg) ==
    IF arg # NoStrategy THEN [cfg EXCEPT !.pinning_strategy = arg] ELSE cfg

NoGroups == <<>>
NoConfig == [pinning_strategy |-> NoStrategy]

\* main up to the checks: each exception of the loader is caught and
\* answered with `return 1`.
Load ==
    /\ pc = "load"
    /\ \E r \in {load_uv_dependencies(manifest)} :
           IF r.kind # "ok"
               THEN /\ exitCode' = 1
                    /\ pc' = "done"
                    /\ UNCHANGED <<groups, doc, docBefore, config>>
           ELSE /\ groups' = r.groups
                /\ doc' = r.doc
                /\ docBefore' = r.doc
                /\ config' = Override(r.config, args_pinning_strategy)
                /\ pc' = "upper"
                /\ UNCHANGED exitCode
    /\ UNCHANGED <<manifest, args_pinning_strategy, fix, results, written, pin, ret, ret2>>

InitLoad ==
    /\ manifest \in Manifests
    /\ args_pinning_strategy \in {NoStrategy} \cup PinningStrategy
    /\ fix \in BOOLEAN
    /\ pc = "load"
    /\ groups = NoGroups
    /\ doc = EmptyDocument
    /\ docBefore = EmptyDocument
    /\ config = NoConfig
    /\ results = [r \in Rules |-> NoResult]
    /\ written = 0
    /\ exitCode = "none"
    /\ pin = NoPin
    /\ ret = NoReturn
    /\ ret2 = NoReturn

NextLoad == Load \/ Next

SpecLoad == InitLoad /\ [][NextLoad]_vars

----------------------------------------------------------------------------
(* The rules called directly *)

\* One rule called on freshly loaded groups and their document, as the
\* tests of the rules call them: the caller passes fix, and a Config (the
\* default one to the rules that do not read it).
InitRule ==
    /\ \E d \in Documents : Loaded(d, "call")
    /\ config = [pinning_strategy |-> MAJOR]
    /\ fix = FALSE

NextRule ==
    \/ \E c \in Configs, f \in BOOLEAN :
           check_upper_bounds("call", "returned", c, f) /\ config' = c /\ fix' = f
    \/ \E f \in BOOLEAN :
           check_all_groups_are_sorted("call", "returned", config, f)
               /\ fix' = f /\ UNCHANGED config
    \/ \E f \in BOOLEAN :
           check_group_overlaps_match("call", "returned", config, f)
               /\ fix' = f /\ UNCHANGED config
    \/ \E f \in BOOLEAN :
           check_no_overlap_between_core_deps_and_groups("call", "returned", config, f)
               /\ fix' = f /\ UNCHANGED config

SpecRule == InitRule /\ [][NextRule]_vars

\* One rule called on groups a caller wrote down and a document the caller
\* built that may lack optional groups of them, as the tests do.
MaxCallPins == 3

WithoutOptional(d, names) ==
    [d EXCEPT !.optional = [g \in DOMAIN d.optional \ names |-> d.optional[g]]]

InitCall ==
    /\ \E d \in DocumentsUpTo(MaxCallPins) : \E gone \in SUBSET DOMAIN d.optional :
           /\ groups = LoadGroups(d)
           /\ doc = WithoutOptional(d, gone)
           /\ docBefore = WithoutOptional(d, gone)
    /\ pc = "call"
    /\ results = [r \in Rules |-> NoResult]
    /\ written = 0
    /\ exitCode = "none"
    /\ manifest = NoManifest
    /\ args_pinning_strategy = NoStrategy
    /\ pin = NoPin
    /\ ret = NoReturn
    /\ ret2 = NoReturn
    /\ config = [pinning_strategy |-> MAJOR]
    /\ fix = FALSE

SpecCall == InitCall /\ [][NextRule]_vars

\* The sort rule called on freshly loaded groups and, once it has returned
\* from a call with fix, called with fix again: on the same groups, or on
\* the groups loaded anew from the document it left.
Reload ==
    /\ pc = "returned"
    /\ groups # LoadGroups(doc)
    /\ groups' = LoadGroups(doc)
    /\ UNCHANGED <<manifest, args_pinning_strategy,
                   doc, config, fix, pc, results, docBefore, written, exitCode,
                   pin, ret, ret2>>

NextSort ==
    \/ \E f \in BOOLEAN :
           check_all_groups_are_sorted("call", "returned", config, f)
               /\ fix' = f /\ UNCHANGED config
    \/ Reload
    \/ fix /\ check_all_groups_are_sorted("returned", "again", config, TRUE)
           /\ UNCHANGED <<config, fix>>

SpecSort == InitRule /\ [][NextSort]_vars

\* The drift rule called on groups whose pins say the same thing in
\* different words:
\*   a>=1.0   a >= 1.0   a>1.0   b>=1,<2   b<2,>=1
PinGeSpaced == <<"a", " ", ">", "=", " ", "1", ".", "0">>
PinBothSwapped == <<"b", "<", "2", ",", ">", "=", "1">>
DriftPins == {PinGe, PinGeSpaced, PinGt, PinBoth, PinBothSwapped}
MaxDriftPins == 3

InitDrift ==
    /\ \E d \in DocumentsOf(DriftPins, MaxDriftPins) : Loaded(d, "call")
    /\ config = [pinning_strategy |-> MAJOR]
    /\ fix = FALSE

NextDrift ==
    \E f \in BOOLEAN :
        check_group_overlaps_match("call", "returned", config, f)
            /\ fix' = f /\ UNCHANGED config

SpecDrift == InitDrift /\ [][NextDrift]_vars

\* A run of main on documents whose pins change their place in the order
\* of their group when they are rewritten with an upper bound.
PinDashed == <<"a", "-", "b", "<", "2">>
OrderPins == {PinGe, PinGeSpaced, PinDashed}
MaxOrderPins == 2

InitOrder ==
    /\ \E d \in DocumentsOf(OrderPins, MaxOrderPins) : Loaded(d, "upper")
    /\ config \in Configs
    /\ fix \in BOOLEAN

SpecOrder == InitOrder /\ [][Next]_vars

\* One rule called on the groups loaded from a document whose
\* [project.optional-dependencies] table may name its group `dev` or
\* `dependencies`.
MaxShadowPins == 2

\* The document with its optional group, if any, under the given name.
Renamed(d, name) ==
    [d EXCEPT !.optional = [g \in {name : h \in DOMAIN d.optional} |->
                               d.optional[OptionalNames[1]]]]

ShadowDocuments ==
    {Renamed(d, name) :
        d \in DocumentsUpTo(MaxShadowPins),
        name \in {OptionalNames[1], "dev", "dependencies"}}

InitShadow ==
    /\ \E d \in ShadowDocuments : Loaded(d, "call")
    /\ config = [pinning_strategy |-> MAJOR]
    /\ fix = FALSE

SpecShadow == InitShadow /\ [][NextRule]_vars

----------------------------------------------------------------------------
(* _add_upper_bound called directly *)

\* The pins _add_upper_bound is called on: lower bounds of one to three
\* release numbers, with a pre-release, an epoch, digits that carry, blanks,
\* extras, further clauses, upper bounds, no `>=` clause, and malformed texts.
PinInputs ==
    {
     <<"a", ">", "=", "1", ".", "0">>,  \* a>=1.0
     <<"a", ">", "=", "2", ".", "2", "5", ".", "0">>,  \* a>=2.25.0
     <<"a", ">", "=", "1">>,  \* a>=1
     <<"a", ">", "=", "1", ".", "0", ".", "0", "a", "1">>,  \* a>=1.0.0a1
     <<"a", ">", "=", "1", ".", "2", ".", "3", "b", "2">>,  \* a>=1.2.3b2
     <<"a", ">", "=", "9", ".", "9", ".", "9">>,  \* a>=9.9.9
     <<"a", ">", "=", "1", "9", ".", "9", "9", ".", "1", "9", "9">>,  \* a>=19.99.199
     <<"a", ">", "=", "1", "!", "2", ".", "0">>,  \* a>=1!2.0
     <<"a", "-", "b", ">", "=", "0", ".", "9", ".", "9">>,  \* a-b>=0.9.9
     <<"a", " ", ">", "=", " ", "1", ".", "0">>,  \* a >= 1.0
     <<"a", "[", "x", "]", ">", "=", "1", ".", "2", ".", "3">>,  \* a[x]>=1.2.3
     <<"a", "[", "y", ",", "x", "]", ">", "=", "1", ".", "0">>,  \* a[y,x]>=1.0
     <<"a", ">", "=", "1", ".", "0", ",", "!", "=", "1", ".", "5">>,  \* a>=1.0,!=1.5
     <<"a", ">", "=", "1", ".", "0", ",", ">", "=", "2", ".", "3">>,  \* a>=1.0,>=2.3
     <<"a", ">", "=", "1", ".", "0", ",", "<", "2">>,  \* a>=1.0,<2
     <<"a", ">", "=", "1", ".", "0", ",", "<", "=", "2">>,  \* a>=1.0,<=2
     <<"a", "<", "2">>,  \* a<2
     <<"a", ">", "1", ".", "0", ",", "<", "2">>,  \* a>1.0,<2
     <<"a", ">", "1", ".", "0">>,  \* a>1.0
     <<"a", "=", "=", "1", ".", "0">>,  \* a==1.0
     <<"a">>,  \* a
     <<"a", ">", "=", "1", ".", "0", ",">>,  \* a>=1.0,
     <<>>,  \* (the empty string)
     <<"a", ">", "=">>,  \* a>=
     <<">", "=", "1", ".", "0">>,  \* >=1.0
     <<"a", ">", "=", "1", ".", ".", "0">>,  \* a>=1..0
     <<"a", "[", "x", ">", "=", "1">>,  \* a[x>=1
     <<"a", "-", ">", "=", "1">>   \* a->=1
    }


InitPin ==
    /\ manifest = NoManifest
    /\ args_pinning_strategy = NoStrategy
    /\ pin \in PinInputs
    /\ config \in Configs
    /\ pc = "pin_call"
    /\ ret = NoReturn
    /\ ret2 = NoReturn
    /\ doc = EmptyDocument
    /\ groups = LoadGroups(doc)
    /\ fix = FALSE
    /\ results = [r \in Rules |-> NoResult]
    /\ docBefore = doc
    /\ written = 0
    /\ exitCode = "none"

\* _add_upper_bound(pin, config)
CallAddUpperBound ==
    /\ pc = "pin_call"
    /\ ret' \in AddUpperBound(pin, config)
    /\ pc' = "pin_returned"
    /\ UNCHANGED <<manifest, args_pinning_strategy,
                   groups, doc, config, fix, results, docBefore, written, exitCode,
                   pin, ret2>>

\* _add_upper_bound called on the str the first call returned
CallAddUpperBoundAgain ==
    /\ pc = "pin_returned"
    /\ ret.kind = "ok"
    /\ ret2' \in AddUpperBound(ret.pin, config)
    /\ pc' = "pin_again"
    /\ UNCHANGED <<manifest, args_pinning_strategy,
                   groups, doc, config, fix, results, docBefore, written, exitCode,
                   pin, ret>>

NextPin == CallAddUpperBound \/ CallAddUpperBoundAgain

SpecPin == InitPin /\ [][NextPin]_vars

----------------------------------------------------------------------------
(* Properties *)

\* What a pin says, read off its parse.
Parses(p) == split_pin(p).ok
Name(p) == split_pin(p).name
GeVersions(p) == {sp.version : sp \in {x \in split_pin(p).specifier : x.operator = OpGe}}
UpperClauses(p) == {sp \in split_pin(p).specifier : sp.operator \in {OpLt, OpLe}}

\* A rule called alone has returned.
Returned(rule) == pc = "returned" /\ results[rule] # NoResult

PinReturned == pc \in {"pin_returned", "pin_again"}

\* The pins of `issues` that are still written in their group of d.
StillWritten(issues, d) ==
    {<<g, p>> \in UNION {{<<h, q>> : q \in Range(issues[h])} : h \in DOMAIN issues} :
        HasDependencyArray(d, g) /\ p \in Range(get_dependency_array(d, g))}

\* An issue one of the four rules reported is still in the document: a
\* flagged pin still written in its group, a flagged group still out of
\* order, or any drift (which no rule repairs).
Unresolved ==
    \/ StillWritten(results.upper.issues, doc) # {}
    \/ \E g \in DOMAIN results.sort.issues :
           get_dependency_array(doc, g) # Sorted(get_dependency_array(doc, g))
    \/ DOMAIN results.drift.issues # {}
    \/ StillWritten(results.overlap.issues, doc) # {}

\* C1: the exit code of a run is 0 when no rule found an issue, or when
\* --fix was given and every issue found was resolved in the document; it is
\* 1 when an issue found remains, an upper-bound pin that could not be
\* given a bound included.
C1_ExitCodeTellsWhetherIssuesRemain ==
    pc = "done" =>
        exitCode = IF ~AnyIssues(results) \/ (fix /\ ~Unresolved) THEN 0 ELSE 1

\* A pin with a `>=` clause and no `<` or `<=` clause.
LowerWithoutUpper(p) == Parses(p) /\ GeVersions(p) # {} /\ UpperClauses(p) = {}

\* C2: check_upper_bounds flags, in every group, exactly the pins with a
\* `>=` clause and no `<` or `<=` clause, and the issues map lists exactly
\* those under their group.
C2_FlagsExactlyLowerWithoutUpper ==
    Returned("upper") =>
        results.upper.issues =
            IssuesOf([g \in DOMAIN groups |-> SelectSeq(groups[g], LowerWithoutUpper)])

\* C3: with fix, the upper-bound rule rewrites in the document every
\* flagged pin whose bound can be synthesized and leaves the other pins as
\* they are; a flagged pin that fails does not keep the others from being
\* rewritten.
C3_FixRewritesEverySynthesizablePin ==
    Returned("upper") /\ fix =>
        \A g \in DOMAIN groups :
            LET before == get_dependency_array(docBefore, g)
                after  == get_dependency_array(doc, g)
            IN  /\ Len(after) = Len(before)
                /\ \A i \in 1..Len(before) :
                       LET fixed == {o \in AddUpperBound(before[i], config) :
                                        o.kind = "ok"}
                       IN  IF IsUnpinned(before[i]) /\ fixed # {}
                               THEN \E o \in fixed : after[i] = o.pin
                           ELSE after[i] = before[i]

\* The release numbers the strategy asks for.
ExpectedBound(lower, strategy) ==
    CASE strategy = MAJOR -> <<lower.major + 1, 0, 0>>
      [] strategy = MINOR -> <<lower.major, lower.minor + 1, 0>>
      [] strategy = PATCH -> <<lower.major, lower.minor, lower.micro + 1>>

\* C4: for a pin with a `>=` clause and no `<`/`<=` clause, _add_upper_bound
\* returns a pin of the same name that keeps the `>=` clause and whose one
\* upper bound is `<` the plain release (major+1).0.0, major.(minor+1).0 or
\* major.minor.(micro+1) of the `>=` version, pre-release or not.
C4_UpperBoundFollowsStrategy ==
    PinReturned /\ LowerWithoutUpper(pin) =>
        /\ ret.kind = "ok"
        /\ Parses(ret.pin)
        /\ Name(ret.pin) = Name(pin)
        /\ \E lb \in GeVersions(pin), up \in UpperClauses(ret.pin) :
               /\ lb \in GeVersions(ret.pin)
               /\ UpperClauses(ret.pin) = {up}
               /\ up.operator = OpLt
               /\ IsRelease(up.version)
               /\ ReleaseTuple(up.version)
                      = ExpectedBound(Version(lb), config.pinning_strategy)

\* a>=1.0.0a1 under the patch strategy has got its bound.
C4_Witness ==
    /\ pc = "pin_returned"
    /\ pin = <<"a", ">", "=", "1", ".", "0", ".", "0", "a", "1">>
    /\ config.pinning_strategy = PATCH
    /\ ret.kind = "ok"
    /\ ret.pin # pin

\* C5: _add_upper_bound applied to its own output returns that output, and
\* a pin that has a `<` or `<=` clause is returned as it was written.
C5_AddUpperBoundIdempotent ==
    /\ pc = "pin_again" => ret2 = ret
    /\ PinReturned /\ Parses(pin) /\ UpperClauses(pin) # {} =>
           ret = [kind |-> "ok", pin |-> pin]

\* A pin that was rewritten has been passed through again.
C5_Witness == pc = "pin_again" /\ ret.pin # pin /\ ret2.kind = "ok"

\* C6: _add_upper_bound fails for want of a `>=` clause exactly when the
\* pin parses and has neither a `<`/`<=` clause nor a `>=` clause; with an
\* upper bound the pin is returned unchanged, `>=` clause or not; a failed
\* call returns no pin.
C6_NoLowerBoundError ==
    PinReturned =>
        /\ ret.kind = "ValueError"
              <=> (Parses(pin) /\ UpperClauses(pin) = {} /\ GeVersions(pin) = {})
        /\ Parses(pin) /\ UpperClauses(pin) # {} /\ GeVersions(pin) = {} =>
               ret = [kind |-> "ok", pin |-> pin]
        /\ ret.kind # "ok" => DOMAIN ret = {"kind"}

\* a>1.0 has been refused.
C6_Witness == pc = "pin_returned" /\ pin = PinGt /\ ret.kind = "ValueError"

\* A pin of a secondary group that names a package of the primary group.
Redundant(p) ==
    /\ Parses(p)
    /\ \E c \in Range(groups["dependencies"]) : Parses(c) /\ Name(c) = Name(p)

SecondaryGroups == DOMAIN groups \ {"dependencies"}

\* C7: with fix and a document that holds the groups, the overlap rule
\* leaves in each secondary group the pins it did not flag, in their order,
\* and none it flagged; the issues name exactly the flagged pins of each
\* secondary group, and the status is FIXED.
C7_OverlapFixRemovesExactlyFlagged ==
    Returned("overlap") /\ fix /\ LoadGroups(docBefore) = groups =>
        LET issues == results.overlap.issues
        IN  /\ \A g \in SecondaryGroups :
                   /\ get_dependency_array(doc, g)
                          = SelectSeq(groups[g], LAMBDA p : ~Redundant(p))
                   /\ g \in DOMAIN issues <=> \E p \in Range(groups[g]) : Redundant(p)
                   /\ g \in DOMAIN issues =>
                          Range(issues[g]) = {p \in Range(groups[g]) : Redundant(p)}
            /\ DOMAIN issues # {} => results.overlap.status = FIXED

\* A group has lost a pin and kept two.
C7_Witness ==
    /\ Returned("overlap") /\ fix
    /\ results.overlap.status = FIXED
    /\ \E g \in SecondaryGroups :
           /\ Len(get_dependency_array(doc, g)) = 2
           /\ Len(get_dependency_array(docBefore, g)) = 3
           /\ get_dependency_array(doc, g) # Sorted(get_dependency_array(doc, g))

\* C8: the overlap rule records a pin of a secondary group exactly when it
\* parses to the name of a pin of the primary group that parses, whatever
\* the constraints; it records no pin of the primary group, and a malformed
\* pin on either side stops nothing.
C8_OverlapFlagsSameName ==
    Returned("overlap") =>
        LET issues == results.overlap.issues
        IN  /\ "dependencies" \notin DOMAIN issues
            /\ \A g \in DOMAIN issues : Range(issues[g]) \subseteq Range(groups[g])
            /\ \A g \in SecondaryGroups : \A p \in Range(groups[g]) :
                   (g \in DOMAIN issues /\ p \in Range(issues[g])) <=> Redundant(p)

\* With a malformed pin on both sides, a pin was recorded whose constraints
\* differ from those of the primary group's pin.
C8_Witness ==
    /\ Returned("overlap")
    /\ groups["dependencies"] = <<PinBad, PinGe>>
    /\ groups["dev"] = <<PinBad, PinGt>>
    /\ results.overlap.issues = ("dev" :> <<PinGt>>)

\* C9: the overlap rule never changes the primary group in the document.
C9_OverlapKeepsPrimaryGroup ==
    Returned("overlap") => doc.dependencies = docBefore.dependencies

\* The overlap fix has changed the document.
C9_Witness ==
    /\ Returned("overlap") /\ fix
    /\ doc # docBefore
    /\ docBefore.dependencies # <<>>

\* The pairs (i, h, j): pin i of group g and pin j of another group h parse
\* to one name and are written differently.
DriftPairs(g) ==
    {t \in UNION {{<<i, h, j>> : i \in 1..Len(groups[g]), j \in 1..Len(groups[h])} :
                     h \in DOMAIN groups \ {g}} :
        LET p == groups[g][t[1]]
            q == groups[t[2]][t[3]]
        IN  Parses(p) /\ Parses(q) /\ Name(p) = Name(q) /\ p # q}

Occurrences(seq, x) == Cardinality({k \in 1..Len(seq) : seq[k] = x})

\* C10: the drift rule records a pin under its group once for every pin of
\* another group that parses to the same name and is written differently,
\* and for nothing else (equal texts are no drift); without such a pair the
\* result is PASSED with no issues, and with one it is FAILED.
C10_DriftRecordsEveryPair ==
    Returned("drift") =>
        LET issues == results.drift.issues
        IN  /\ \A g \in DOMAIN groups :
                   /\ g \in DOMAIN issues <=> DriftPairs(g) # {}
                   /\ g \in DOMAIN issues =>
                          \A p \in Range(groups[g]) \cup Range(issues[g]) :
                              Occurrences(issues[g], p)
                                  = Cardinality({t \in DriftPairs(g) :
                                                    groups[g][t[1]] = p})
            /\ DOMAIN issues \subseteq DOMAIN groups
            /\ results.drift.status = IF DOMAIN issues = {} THEN PASSED ELSE FAILED

\* One text stands in two groups, next to a pin that drifted from it.
C10_Witness ==
    /\ Returned("drift")
    /\ groups["dependencies"] = <<PinGe>>
    /\ groups["dev"] = <<PinGe, PinGt>>
    /\ results.drift.issues = ("dependencies" :> <<PinGe>>) @@ ("dev" :> <<PinGt>>)

\* Two pins say the same thing: both parse, to one name and to one set of
\* clauses (the set forgets the order and the blanks they were written with).
SamePin(p, q) ==
    /\ Parses(p) /\ Parses(q)
    /\ Name(p) = Name(q)
    /\ split_pin(p).specifier = split_pin(q).specifier

\* C11: when every two pins of different groups that parse to one name say
\* the same thing, whatever the order and the blanks of their clauses, the
\* drift rule reports no drift.
C11_SamePinsAreNoDrift ==
    Returned("drift") /\
    (\A g, h \in DOMAIN groups : \A p \in Range(groups[g]), q \in Range(groups[h]) :
         g # h /\ Parses(p) /\ Parses(q) /\ Name(p) = Name(q) => SamePin(p, q))
        => results.drift = CheckResult(PASSED, <<>>)

\* C12: in a run, with --fix or without, the drift rule leaves the groups
\* and the document as they were; when it finds drift its status is FAILED,
\* and the run then returns 1.
C12_DriftNeverFixes ==
    /\ pc = "overlap" =>
           /\ doc = docBefore
           /\ DOMAIN results.drift.issues # {} => results.drift.status = FAILED
    /\ pc = "done" /\ DOMAIN results.drift.issues # {} => exitCode = 1

\* A --fix run has ended in which only the drift rule could not mend what
\* it found.
C12_Witness ==
    /\ pc = "done" /\ fix
    /\ results.drift.status = FAILED
    /\ results.upper.status = FIXED
    /\ results.sort.status = PASSED
    /\ results.overlap.status = PASSED
    /\ exitCode = 1

\* The groups without their malformed pins.
WellFormed(gs) == [g \in DOMAIN gs |-> SelectSeq(gs[g], Parses)]

\* C13: the drift rule reports what it would report were the malformed
\* pins not written at all: a malformed pin, wherever it stands in its
\* group, is never reported and takes no report of two well-formed pins
\* away.
C13_MalformedPinSkipsOnlyItsPairs ==
    Returned("drift") =>
        /\ results.drift.issues = Drift(WellFormed(groups))
        /\ \A g \in DOMAIN results.drift.issues :
               \A p \in Range(results.drift.issues[g]) : Parses(p)

\* Both groups begin with a malformed pin, and the drift of the pins after
\* them was reported.
C13_Witness ==
    /\ Returned("drift")
    /\ groups["dependencies"] = <<PinBad, PinGe>>
    /\ groups["dev"] = <<PinBad, PinGt>>
    /\ results.drift.issues = ("dependencies" :> <<PinGe>>) @@ ("dev" :> <<PinGt>>)

\* The pins of a list do not decrease: none is less, as a str, than the
\* one before it.
NonDecreasing(seq) == \A i \in 1..(Len(seq) - 1) : ~StrLess(seq[i + 1], seq[i])

\* C14: the sort rule flags exactly the groups whose pins, compared as
\* written, are not in non-decreasing order, and lists each with its pins;
\* the result is PASSED with no issues when no group is flagged, FAILED when
\* one is and fix is off, FIXED when one is and fix is on.
C14_SortFlagsOutOfOrderGroups ==
    Returned("sort") =>
        LET issues == results.sort.issues
        IN  /\ DOMAIN issues = {g \in DOMAIN groups : ~NonDecreasing(groups[g])}
            /\ \A g \in DOMAIN issues : issues[g] = groups[g]
            /\ results.sort.status =
                   IF DOMAIN issues = {} THEN PASSED
                   ELSE IF fix THEN FIXED
                   ELSE FAILED

\* One group holds a pin twice and is not flagged; another is out of order
\* and is.
C14_Witness ==
    /\ Returned("sort") /\ ~fix
    /\ groups["dev"] = <<PinGe, PinGe>>
    /\ DOMAIN results.sort.issues = {"dependencies"}
    /\ results.sort.status = FAILED

\* after holds the pins of before, each as often, in non-decreasing order.
SortedPermutation(after, before) ==
    /\ Len(after) = Len(before)
    /\ \A p \in Range(after) \cup Range(before) :
           Occurrences(after, p) = Occurrences(before, p)
    /\ NonDecreasing(after)

\* C15: with fix, the sort rule leaves in the document, for each group it
\* flagged, the same pins in sorted order, and every other group as it
\* was; run with fix a second time, it leaves the document as the first
\* run left it.
C15_SortFixIsSortedPermutation ==
    /\ pc = "returned" /\ fix =>
           \A g \in DOMAIN groups :
               IF g \in DOMAIN results.sort.issues
                   THEN SortedPermutation(get_dependency_array(doc, g),
                                          get_dependency_array(docBefore, g))
               ELSE get_dependency_array(doc, g) = get_dependency_array(docBefore, g)
    /\ pc = "again" => doc = docBefore

\* The second run flagged a group again, on the groups as they were loaded
\* before the first run sorted the document.
C15_Witness ==
    /\ pc = "again"
    /\ results.sort.status = FIXED
    /\ groups # LoadGroups(doc)
    /\ \E g \in DOMAIN groups : Len(groups[g]) >= 3

\* C16: a rule called without fix leaves the groups and the document as
\* they were, whichever of the four rules it is and whether or not the
\* document holds the groups.
C16_NoMutationWithoutFix ==
    [][pc = "call" /\ ~fix' => groups' = groups /\ doc' = doc]_vars

\* A rule called without fix has found issues in groups the document does
\* not hold.
C16_Witness ==
    /\ pc = "returned" /\ ~fix
    /\ \E r \in Rules : results[r].status = FAILED
    /\ groups # LoadGroups(doc)
    /\ doc = docBefore

\* A rule of the run reported issues.
SomeRuleReported == \E r \in Rules : DOMAIN results[r].issues # {}

\* C17: the manifest is not written before the four rules have run; a run
\* that has ended has written it once if --fix was given and a rule
\* reported issues, and not at all otherwise.
C17_WrittenOnceIffFixAndIssues ==
    /\ pc # "done" => written = 0
    /\ pc = "done" => written = IF fix /\ SomeRuleReported THEN 1 ELSE 0

\* The manifest was written by a run that returns 1, and every rule has
\* returned its result.
C17_Witness ==
    /\ pc = "done" /\ written = 1 /\ exitCode = 1
    /\ \A r \in Rules : results[r] # NoResult
    /\ groups # LoadGroups(doc)

\* The manifests the loader refuses: no file, not TOML, a required section
\* missing, [tool.pinnochio] not a table, a pinning-strategy that is none
\* of major, minor, patch.
FatalManifest(m) ==
    \/ ~m.found
    \/ ~m.wellformed
    \/ m.sections # Sections
    \/ m.tool.table = "not_table"
    \/ m.tool.table = "table" /\ m.tool.pinning_strategy \notin {NoStrategy} \cup PinningStrategy

\* C18: every fatal load error ends the run with exit code 1 before any
\* rule has run and without the manifest being written, --fix or not.
C18_FatalLoadErrorExitsBeforeRules ==
    FatalManifest(manifest) =>
        /\ pc \in {"load", "done"}
        /\ pc = "done" => exitCode = 1
        /\ written = 0
        /\ \A r \in Rules : results[r] = NoResult
        /\ doc = EmptyDocument

\* main has returned 1 under --fix on a manifest without
\* [dependency-groups.dev].
C18_Witness ==
    /\ pc = "done"
    /\ fix
    /\ exitCode = 1
    /\ manifest.found /\ manifest.wellformed
    /\ manifest.sections = Sections \ {"dependency-groups.dev"}

\* The strategy the command line and the manifest ask for.
AskedStrategy(m, arg) ==
    IF arg # NoStrategy THEN arg
    ELSE IF m.tool.table = "table" /\ m.tool.pinning_strategy # NoStrategy
        THEN m.tool.pinning_strategy
    ELSE MAJOR

\* C19: from before the first rule to the end of the run the strategy is
\* the --pinning-strategy value if given, else the configured one if
\* present, else MAJOR, and it is the one check_upper_bounds writes bounds
\* with; a configured value that is no strategy is refused at load, with
\* or without --pinning-strategy.
C19_StrategyPrecedence ==
    /\ pc \in {"upper", "sort", "drift", "overlap", "exit"} =>
           config.pinning_strategy = AskedStrategy(manifest, args_pinning_strategy)
    /\ pc = "sort" /\ fix /\ DOMAIN results.upper.issues # {} =>
           doc \in FixUpperGroups(docBefore, GroupOrder(results.upper.issues),
                                  results.upper.issues,
                                  [pinning_strategy |->
                                      AskedStrategy(manifest, args_pinning_strategy)])
    /\ manifest.tool.table = "table" /\ manifest.tool.pinning_strategy = "fast" =>
           /\ pc \in {"load", "done"}
           /\ pc = "done" => exitCode = 1

\* The manifest configures patch, the command line says minor, and
\* check_upper_bounds has written a>=1.0,<1.1.0.
C19_Witness ==
    /\ pc = "sort"
    /\ args_pinning_strategy = MINOR
    /\ manifest.tool.pinning_strategy = PATCH
    /\ results.upper.status = FIXED
    /\ doc.dependencies = <<PinGe \o <<",", "<", "1", ".", "1", ".", "0">>>>

\* C20: a rule called with fix on a group whose array get_dependency_array
\* does not find in the document reports the failure: it does not return
\* FIXED for that group.
C20_FixReportsMissingGroup ==
    pc = "returned" /\ fix =>
        \A r \in Rules : \A g \in DOMAIN results[r].issues :
            ~HasDependencyArray(docBefore, g) => results[r].status # FIXED

\* Whether a pin of the group shares its package name with a pin of the
\* group `dependencies`.
SharesNameWithCore(gs, g) ==
    \E p \in Range(gs[g]), c \in Range(gs["dependencies"]) :
        Parses(p) /\ Parses(c) /\ Name(p) = Name(c)

\* C21: when a --fix run has written the document and the overlap rule
\* returned FIXED, no secondary group of the written document shares a
\* package name with the group `dependencies`.
C21_WrittenDocumentHasNoOverlap ==
    pc = "done" /\ fix /\ written = 1 /\ results.overlap.status = FIXED =>
        \A g \in DOMAIN LoadGroups(doc) \ {"dependencies"} :
            ~SharesNameWithCore(LoadGroups(doc), g)

\* C22: the document a --fix run writes has every group in non-decreasing
\* order, also when the upper-bound fix moved a pin in the order.
C22_WrittenDocumentIsSorted ==
    pc = "done" /\ fix /\ written = 1 =>
        \A g \in DOMAIN LoadGroups(doc) : NonDecreasing(LoadGroups(doc)[g])

\* C23: a rule is called on loaded groups and a document that agree: for
\* every name of the groups mapping, the pins held under the name are the
\* pins of the array the mutator reads and rewrites for that name, also
\* when an optional group is named `dev` or `dependencies`.
C23_GroupsAgreeWithMutator ==
    pc = "returned" =>
        \A g \in DOMAIN groups :
            /\ HasDependencyArray(docBefore, g)
            /\ groups[g] = get_dependency_array(docBefore, g)

\* C24: a pin _add_upper_bound rewrites keeps its package name, its extras
\* and every one of its version clauses.
C24_UpperBoundOnlyAdds ==
    pc = "pin_returned" /\ ret.kind = "ok" /\ ret.pin # pin =>
        /\ Parses(ret.pin)
        /\ Name(ret.pin) = Name(pin)
        /\ split_pin(ret.pin).extras = split_pin(pin).extras
        /\ split_pin(pin).specifier \subseteq split_pin(ret.pin).specifier

\* The pins of seq that are not flagged, in order.
Unflagged(seq, flagged) == SelectSeq(seq, LAMBDA p : p \notin Range(flagged))

\* C25: a rule called with fix leaves every group that is not in its issues
\* with the pins it had; in a group it rewrites, the upper-bound fix leaves
\* each unflagged pin where it was and the overlap fix keeps the unflagged
\* pins in their order.
C25_FixRewritesOnlyFlagged ==
    pc = "returned" /\ fix =>
        \A r \in {"upper", "sort", "overlap"} :
            results[r] # NoResult =>
                /\ \A g \in DOMAIN groups \ DOMAIN results[r].issues :
                       get_dependency_array(doc, g) = get_dependency_array(docBefore, g)
                /\ r = "upper" =>
                       \A g \in DOMAIN results[r].issues :
                           LET before == get_dependency_array(docBefore, g)
                               after  == get_dependency_array(doc, g)
                           IN  /\ Len(after) = Len(before)
                               /\ \A i \in 1..Len(before) :
                                      before[i] \notin Range(results[r].issues[g])
                                          => after[i] = before[i]
                /\ r = "overlap" =>
                       \A g \in DOMAIN results[r].issues :
                           get_dependency_array(doc, g)
                               = Unflagged(get_dependency_array(docBefore, g),
                                           results[r].issues[g])

\* The overlap fix has rewritten a group that keeps an unflagged pin, next
\* to a secondary group it did not flag.
C25_Witness ==
    /\ pc = "returned"
    /\ fix
    /\ results.overlap.status = FIXED
    /\ doc # docBefore
    /\ \E g \in DOMAIN results.overlap.issues : get_dependency_array(doc, g) # <<>>
    /\ \E h \in DOMAIN groups \ (DOMAIN results.overlap.issues \cup {"dependencies"}) :
           groups[h] # <<>>
====
